---------------------------- MODULE Spec2Model ----------------------------
(***************************************************************************)
(* A model of notionsnapshot/__main__.py: the FileManager (file names and  *)
(* asset store) and the Scraper (traversal, readiness wait, toggle         *)
(* expansion, asset localisation, link rewriting).                         *)
(*                                                                         *)
(* Strings are TLA+ strings; Len, \o and SubSeq act on them as Python's    *)
(* len, + and slicing do, so the string functions of the program are       *)
(* computed character by character.                                        *)
(*                                                                         *)
(* Three specifications share the variables:                               *)
(*   Spec        Scraper.run, one action per stage of the loop body        *)
(*   SpecExpand  Scraper._expand_toggle_blocks on one live document        *)
(*   SpecAsset   FileManager.download_asset and Scraper._download_images   *)
(* FairSpec and FairSpecExpand add weak fairness: the program is a single  *)
(* thread that always takes its next step.                                 *)
(***************************************************************************)
EXTENDS Naturals, Integers, Sequences, FiniteSets, Bags, TLC

VARIABLES
    \* ---- Scraper.run
    self_url,         \* Scraper.url = FileManager.url (both args.url)
    pc,               \* position of run
    will_visit,       \* Scraper.will_visit
    visited,          \* Scraper.visited
    url,              \* the local url of run's loop body
    soup,             \* the anchors of the captured document, in document order
    subpage_urls,     \* the list _link_to_subpages returned
    files,            \* output directory: page file name -> URL it was written for
    driver,           \* "open" | "quit"
    error,            \* the exception that ended run, or "none"
    load_timed_out,   \* whether the readiness wait of the current url timed out
    site,             \* history: the anchors each URL served when it was captured
    navigated,        \* history: bag of URLs passed to driver.get
    saved,            \* history: bag of URLs passed to save_page
    \* ---- Scraper._expand_toggle_blocks
    epc,              \* position of _expand_toggle_blocks
    dom,              \* live document: per widget [parent, rotated, loaded, dead]
    expanded_toggle_blocks,
    toggle_blocks,    \* the list of the running pass
    idx,              \* index of the for loop over toggle_blocks
    clicks,           \* history: activation events sent to each widget
    timed_out,        \* history: widgets whose expansion wait timed out
    page_no,          \* the number of the page the driver shows: the elements of
                      \* one page are no elements of another
    \* ---- FileManager.download_asset, Scraper._download_images
    apc,              \* position of the asset stage
    cache_assets,     \* FileManager.cache_assets
    assets,           \* file names in <output_dir>/assets
    cache,            \* file names in the cache directory
    imgs,             \* the img src values of the document, in document order
    orig_imgs,        \* history: the src values before _download_images
    img_i,            \* index of the for loop over images
    fonts,            \* the font files named by the font-face rules of the stylesheet
    font_i,           \* index of the loop over the font-face rules
    asset_error,      \* the exception that ended _download_stylesheets, or "none"
    calls,            \* history: the download_asset calls, in order
    \* ---- the readiness wait of Scraper._load_page
    lpc,              \* position of the wait: "wait" | "ready" | "timeout"
    live,             \* the live document the driver shows
    prev_page,        \* the nonlocal prev_page of is_page_loaded
    polls,            \* history: the number of polls made
    seen_before,      \* history: the markup the previous poll saw ("": no poll yet)
    \* ---- FileManager.__init__ and _setup (assets, cache, cache_assets, calls as above)
    spc,              \* position of the FileManager: "new" | "ready"
    out_exists,       \* whether the output directory exists
    out_has_assets,   \* whether the output directory has an assets directory
    cache_exists,     \* whether the cache directory exists
    cache_ops,        \* history: the kinds of access made to the cache directory
    cache0,           \* history: the cache directory before the FileManager was made
    prior0            \* history: the output directory before the FileManager was made

runVars    == <<self_url, pc, will_visit, visited, url, soup, subpage_urls, files,
                driver, error, load_timed_out, site, navigated, saved>>
expandVars == <<epc, dom, expanded_toggle_blocks, toggle_blocks, idx, clicks, timed_out, page_no>>
assetVars  == <<apc, cache_assets, assets, cache, imgs, orig_imgs, img_i, fonts, font_i,
                asset_error, calls>>
pollVars   == <<lpc, live, prev_page, polls, seen_before>>
setupVars  == <<spc, out_exists, out_has_assets, cache_exists, cache_ops, cache0, prior0>>
vars       == <<runVars, expandVars, assetVars, pollVars, setupVars>>

---------------------------------------------------------------------------
(* Python's str operations, on TLA+ strings (positions are 1-based here).  *)

\* s[a-1 : b] for 1 <= a: the characters at positions a..b, "" when there are none
Slice(s, a, b) == IF a > b \/ a > Len(s) THEN "" ELSE SubSeq(s, a, IF b > Len(s) THEN Len(s) ELSE b)

\* s.startswith(p)
StartsWith(s, p) == Len(p) <= Len(s) /\ Slice(s, 1, Len(p)) = p

\* whether t occurs in s at position i
OccursAt(s, t, i) == i >= 1 /\ i + Len(t) - 1 <= Len(s) /\ SubSeq(s, i, i + Len(t) - 1) = t

\* the first position >= i at which t occurs in s, 0 when there is none
RECURSIVE FindFrom(_, _, _)
FindFrom(s, t, i) ==
    IF i + Len(t) - 1 > Len(s) THEN 0
    ELSE IF OccursAt(s, t, i) THEN i
    ELSE FindFrom(s, t, i + 1)

\* the last position <= i at which t occurs in s, 0 when there is none
RECURSIVE RFindFrom(_, _, _)
RFindFrom(s, t, i) ==
    IF i < 1 THEN 0
    ELSE IF OccursAt(s, t, i) THEN i
    ELSE RFindFrom(s, t, i - 1)

\* s.find(t) + 1: the first position of t in s, 0 when t does not occur
Find(s, t) == FindFrom(s, t, 1)

\* s.rfind(t) + 1: the last position of t in s, 0 when t does not occur
RFind(s, t) == RFindFrom(s, t, Len(s) - Len(t) + 1)

\* t in s
Contains(s, t) == Find(s, t) # 0

\* s.split(sep)[0]
SplitFirst(s, sep) ==
    LET i == Find(s, sep) IN IF i = 0 THEN s ELSE Slice(s, 1, i - 1)

\* s.split(sep)[-1]
SplitLast(s, sep) ==
    LET i == RFind(s, sep) IN IF i = 0 THEN s ELSE Slice(s, i + Len(sep), Len(s))

\* the first position >= i in s of any character of the set cs, Len(s) + 1 when none
RECURSIVE FirstOfFrom(_, _, _)
FirstOfFrom(s, cs, i) ==
    IF i > Len(s) THEN Len(s) + 1
    ELSE IF SubSeq(s, i, i) \in cs THEN i
    ELSE FirstOfFrom(s, cs, i + 1)

FirstOf(s, cs) == FirstOfFrom(s, cs, 1)

\* s.replace(x, y), and re.sub(x, y, s) for a literal x
RECURSIVE ReplaceFrom(_, _, _, _)
ReplaceFrom(s, x, y, i) ==
    IF i > Len(s) THEN ""
    ELSE IF OccursAt(s, x, i) THEN y \o ReplaceFrom(s, x, y, i + Len(x))
    ELSE SubSeq(s, i, i) \o ReplaceFrom(s, x, y, i + 1)

ReplaceAll(s, x, y) == ReplaceFrom(s, x, y, 1)

\* s.split(sep), a list
RECURSIVE Split(_, _)
Split(s, sep) ==
    LET i == Find(s, sep)
    IN  IF i = 0 THEN <<s>>
        ELSE <<Slice(s, 1, i - 1)>> \o Split(Slice(s, i + Len(sep), Len(s)), sep)

\* sep.join(list)
RECURSIVE Join(_, _)
Join(list, sep) ==
    IF list = <<>> THEN ""
    ELSE IF Len(list) = 1 THEN list[1]
    ELSE list[1] \o sep \o Join(Tail(list), sep)

\* s.strip(c), for one character c
RECURSIVE Strip(_, _)
Strip(s, c) ==
    IF StartsWith(s, c) THEN Strip(Slice(s, 2, Len(s)), c)
    ELSE IF s # "" /\ SubSeq(s, Len(s), Len(s)) = c THEN Strip(Slice(s, 1, Len(s) - 1), c)
    ELSE s

UpperCase == "ABCDEFGHIJKLMNOPQRSTUVWXYZ"
LowerCase == "abcdefghijklmnopqrstuvwxyz"

\* c.lower() for one character
LowerChar(c) ==
    LET i == Find(UpperCase, c) IN IF i # 0 THEN SubSeq(LowerCase, i, i) ELSE c

\* s.lower()
RECURSIVE LowerFrom(_, _)
LowerFrom(s, i) ==
    IF i > Len(s) THEN "" ELSE LowerChar(SubSeq(s, i, i)) \o LowerFrom(s, i + 1)

Lower(s) == LowerFrom(s, 1)

\* urllib.parse.urlparse(u): scheme://netloc path ?query #fragment
UrlAfterScheme(u) ==
    IF Contains(u, "://") THEN Slice(u, Find(u, "://") + 3, Len(u)) ELSE u

UrlNetloc(u) ==
    IF Contains(u, "://")
    THEN Slice(UrlAfterScheme(u), 1, FirstOf(UrlAfterScheme(u), {"/", "?", "#"}) - 1)
    ELSE ""

UrlPath(u) ==
    LET rest == IF Contains(u, "://")
                THEN Slice(UrlAfterScheme(u), Len(UrlNetloc(u)) + 1, Len(UrlAfterScheme(u)))
                ELSE u
    IN  Slice(rest, 1, FirstOf(rest, {"?", "#"}) - 1)

UrlQuery(u) ==
    LET nofrag == SplitFirst(u, "#")
    IN  IF Contains(nofrag, "?") THEN Slice(nofrag, Find(nofrag, "?") + 1, Len(nofrag)) ELSE ""

---------------------------------------------------------------------------
(* FileManager: page file names                                            *)

\* The filename derivation without the root rule: a slip that drops the
\* `if url == self.url` branch.
GetFilenameFromUrl_NoRootRule(root, u) ==
    LET id == Slice(UrlPath(u), 2, Len(UrlPath(u)))
        r  == RFind(id, "-")
    IN  Lower(IF r = 0 THEN Slice(id, 1, Len(id) - 1) ELSE Slice(id, 1, r - 1)) \o ".html"

\* FileManager.get_filename_from_url, with self.url = root.  id[: id.rfind("-")]:
\* without a hyphen rfind gives -1 and the slice drops the last character.
GetFilenameFromUrl(root, u) ==
    LET id == Slice(UrlPath(u), 2, Len(UrlPath(u)))
        r  == RFind(id, "-")
        filename ==
            Lower(IF r = 0 THEN Slice(id, 1, Len(id) - 1) ELSE Slice(id, 1, r - 1))
                \o ".html"
    IN  IF u = root THEN "index.html" ELSE filename

---------------------------------------------------------------------------
(* Scraper._link_to_subpages and _link_to_table_view_subpages              *)

\* the value of a missing href attribute
NoHref == "<no href>"

\* an element of the captured document that the link stage looks at:
\* tag "a" (anchor), "span" (demoted anchor) or "row" (collection item)
Element(tag, href, in_scroller, block_id) ==
    [tag |-> tag, href |-> href, cls |-> "", in_scroller |-> in_scroller, block_id |-> block_id]

Anchor(href, in_scroller) == Element("a", href, in_scroller, "")
Row(block_id)             == Element("row", NoHref, FALSE, block_id)

\* domain = f'{self.url.split("notion.site")[0]}notion.site'
Domain(root) == SplitFirst(root, "notion.site") \o "notion.site"

\* the url of an anchor: a relative href is put under the domain, keeping
\* only its last path segment
ResolveHref(root, href) ==
    IF StartsWith(href, "/") THEN Domain(root) \o "/" \o SplitLast(href, "/") ELSE href

\* one iteration of the loop over anchors: the element as rewritten, and the
\* urls it appends to subpage_urls
RewriteAnchor(root, a) ==
    LET u == ResolveHref(root, a.href)
    IN  IF ~(a.tag = "a" /\ a.href # NoHref)
        THEN [el |-> a, urls |-> <<>>]                      \* not in find_all("a", href=True)
        ELSE IF ~StartsWith(u, Domain(root))
        THEN [el |-> a, urls |-> <<>>]                      \* is_external_url: continue
        ELSE IF Contains(u, "#")
        THEN [el   |-> [a EXCEPT !.href = "#" \o SplitLast(u, "#"),
                                 !.cls  = "notionsnapshot-anchor-link"],
              urls |-> <<>>]
        ELSE IF a.in_scroller
        THEN [el   |-> [a EXCEPT !.href = GetFilenameFromUrl(root, u)],
              urls |-> <<u>>]
        ELSE [el   |-> [a EXCEPT !.href = NoHref, !.tag = "span"],
              urls |-> <<>>]

\* the urls the loop appends for the elements of doc from position i on
RECURSIVE SubpageUrlsFrom(_, _, _)
SubpageUrlsFrom(root, doc, i) ==
    IF i > Len(doc) THEN <<>>
    ELSE RewriteAnchor(root, doc[i]).urls \o SubpageUrlsFrom(root, doc, i + 1)

\* Scraper._link_to_subpages: the rewritten document and the returned list
LinkToSubpages(root, doc) ==
    [soup         |-> [i \in DOMAIN doc |-> RewriteAnchor(root, doc[i]).el],
     subpage_urls |-> SubpageUrlsFrom(root, doc, 1)]

\* Scraper._link_to_table_view_subpages: every collection row gets an anchor
\* to "/" + its block id without hyphens; the method returns nothing
LinkToTableViewSubpages(doc) ==
    [i \in DOMAIN doc |->
        IF doc[i].tag = "row"
        THEN [doc[i] EXCEPT !.tag = "a", !.href = "/" \o ReplaceAll(doc[i].block_id, "-", "")]
        ELSE doc[i]]

Range(f) == {f[i] : i \in DOMAIN f}

---------------------------------------------------------------------------
(* The site the crawl runs on                                              *)

\* the root URLs a run is started with
RootUrls == {"https://w.notion.site/Home-a1", "https://w.notion.site/ab"}

\* hrefs of subpage links, as the platform writes them (relative, or absolute
\* on the workspace domain); the first one leads back to the root
InternalHrefs(root) ==
    << "/" \o SplitLast(root, "/"), "/Notes-b2", "https://w.notion.site/Notes-c3" >>

\* the other elements every page of the site holds: an external link, a
\* table-of-contents link, a workspace link outside any scroller, an external
\* link with a fragment, an anchor without href, a collection row
Extras ==
    << Anchor("https://ext.example/page", TRUE),
       Anchor("/Notes-b2#intro", TRUE),
       Anchor("/Notes-c3", FALSE),
       Anchor("https://ext.example/page#top", FALSE),
       Anchor(NoHref, TRUE),
       Row("d4-e5") >>

\* the document with subpage links to the hrefs at the positions in S
Doc(root, S) ==
    LET hs == InternalHrefs(root)
        links == [i \in DOMAIN hs |-> Anchor(hs[i], TRUE)]
        RECURSIVE Pick(_)
        Pick(i) == IF i > Len(hs) THEN <<>>
                   ELSE (IF i \in S THEN <<links[i]>> ELSE <<>>) \o Pick(i + 1)
    IN  Pick(1) \o Extras

\* the documents a page of the site can serve
Docs(root) == {Doc(root, S) : S \in SUBSET (DOMAIN InternalHrefs(root))}

\* the URLs of the pages of the site
SiteUrls(root) ==
    {root} \cup {ResolveHref(root, InternalHrefs(root)[i]) : i \in DOMAIN InternalHrefs(root)}

\* run's lines 174-175 on each document of the site: _link_to_subpages, whose
\* result is kept, then _link_to_table_view_subpages, whose result is not
LinkedDocs ==
    [root \in RootUrls |-> [doc \in Docs(root) |->
        LET r == LinkToSubpages(root, doc)
        IN  [soup |-> LinkToTableViewSubpages(r.soup), subpage_urls |-> r.subpage_urls]]]

\* save_page's file name for each URL of the site
PageFilenames ==
    [root \in RootUrls |-> [u \in SiteUrls(root) |-> GetFilenameFromUrl(root, u)]]

---------------------------------------------------------------------------
(* Scraper.run                                                             *)

\* saturation of the history counters
CountCap == 2

AddCapped(bag, e) == IF CopiesIn(e, bag) >= CountCap THEN bag ELSE bag (+) SetToBag({e})

\* line 179 without its filter
FrontierUpdate_NoFilter(wv, vis, subs) == wv \cup Range(subs)

\* line 179 as an assignment instead of an update
FrontierUpdate_Assign(wv, vis, subs) == {page \in Range(subs) : page \notin vis}

\* line 179 with the filter on the pending set instead of the visited set
FrontierUpdate_FilterPending(wv, vis, subs) == wv \cup {page \in Range(subs) : page \notin wv}

\* self.will_visit.update(page for page in subpage_urls if page not in self.visited)
FrontierUpdate(wv, vis, subs) == wv \cup {page \in Range(subs) : page \notin vis}

InitRun ==
    /\ self_url \in RootUrls
    /\ pc = "loop"
    /\ will_visit = {self_url}
    /\ visited = {}
    /\ url = ""
    /\ soup = <<>>
    /\ subpage_urls = <<>>
    /\ files = <<>>
    /\ driver = "open"
    /\ error = "none"
    /\ load_timed_out = FALSE
    /\ site = <<>>
    /\ navigated = EmptyBag
    /\ saved = EmptyBag

\* while self.will_visit: url = self.will_visit.pop()
Pop ==
    /\ pc = "loop"
    /\ will_visit # {}
    /\ \E u \in will_visit :
        /\ url' = u
        /\ will_visit' = will_visit \ {u}
    /\ pc' = "load"
    /\ UNCHANGED <<expandVars, assetVars, pollVars, setupVars, self_url, visited, soup, subpage_urls, files, driver, error,
                   load_timed_out, site, navigated, saved>>

\* _load_page whose handler lets the timeout through
LoadPage_TimeoutFatal ==
    /\ pc = "load"
    /\ navigated' = AddCapped(navigated, url)
    /\ \E timeout \in BOOLEAN :
        /\ load_timed_out' = timeout
        /\ pc' = IF timeout THEN "aborted" ELSE "expand"
        /\ error' = IF timeout THEN "TimeoutException" ELSE "none"
    /\ UNCHANGED <<expandVars, assetVars, pollVars, setupVars, self_url, will_visit, visited, url, soup, subpage_urls, files,
                   driver, site, saved>>

\* _load_page: driver.get(url), then the readiness wait, which ends ready or
\* with a TimeoutException that the except clause swallows; then the theme script
LoadPage ==
    /\ pc = "load"
    /\ navigated' = AddCapped(navigated, url)
    /\ \E timeout \in BOOLEAN : load_timed_out' = timeout
    /\ pc' = "expand"
    /\ UNCHANGED <<expandVars, assetVars, pollVars, setupVars, self_url, will_visit, visited, url, soup, subpage_urls, files,
                   driver, error, site, saved>>

\* _expand_toggle_blocks, when it returns (SpecExpand has its steps)
ExpandToggleBlocks ==
    /\ pc = "expand"
    /\ pc' = "capture"
    /\ UNCHANGED <<expandVars, assetVars, pollVars, setupVars, self_url, will_visit, visited, url, soup, subpage_urls, files,
                   driver, error, load_timed_out, site, navigated, saved>>

\* soup = BeautifulSoup(driver.page_source), _clean_up, _download_images: the
\* page serves some document; none of the three raises on a fetch failure
\* (SpecAsset has the steps of _download_images)
Capture ==
    /\ pc = "capture"
    /\ \E S \in SUBSET (DOMAIN InternalHrefs(self_url)) :
        /\ soup' = Doc(self_url, S)
        /\ site' = (url :> Doc(self_url, S)) @@ site
    /\ pc' = "stylesheets"
    /\ UNCHANGED <<expandVars, assetVars, pollVars, setupVars, self_url, will_visit, visited, url, subpage_urls, files,
                   driver, error, load_timed_out, navigated, saved>>

\* _download_stylesheets: returns, or raises (open() of a stylesheet that was
\* not downloaded, line 321; a font-face source that does not parse, line 332)
DownloadStylesheets ==
    /\ pc = "stylesheets"
    /\ \E outcome \in {"none", "FileNotFoundError", "ValueError"} :
        /\ error' = outcome
        /\ pc' = IF outcome = "none" THEN "links" ELSE "aborted"
    /\ UNCHANGED <<expandVars, assetVars, pollVars, setupVars, self_url, will_visit, visited, url, soup, subpage_urls, files,
                   driver, load_timed_out, site, navigated, saved>>

\* _insert_injections (adds no anchor), subpage_urls = _link_to_subpages(soup),
\* _link_to_table_view_subpages(soup)
LinkStage ==
    /\ pc = "links"
    /\ subpage_urls' = LinkedDocs[self_url][soup].subpage_urls
    /\ soup' = LinkedDocs[self_url][soup].soup
    /\ pc' = "save"
    /\ UNCHANGED <<expandVars, assetVars, pollVars, setupVars, self_url, will_visit, visited, url, files, driver, error,
                   load_timed_out, site, navigated, saved>>

\* save_page(soup, url); visited.add(url); will_visit.update(...)
SavePage ==
    /\ pc = "save"
    /\ files' = (PageFilenames[self_url][url] :> url) @@ files
    /\ saved' = AddCapped(saved, url)
    /\ visited' = visited \cup {url}
    /\ will_visit' = FrontierUpdate(will_visit, visited \cup {url}, subpage_urls)
    /\ pc' = "loop"
    /\ UNCHANGED <<expandVars, assetVars, pollVars, setupVars, self_url, url, soup, subpage_urls, driver, error, load_timed_out,
                   site, navigated>>

\* the end of run without line 182: the driver is left open
Quit_DriverLeftOpen ==
    /\ pc = "loop"
    /\ will_visit = {}
    /\ pc' = "done"
    /\ UNCHANGED <<expandVars, assetVars, pollVars, setupVars, self_url, will_visit, visited, url, soup, subpage_urls, files,
                   driver, error, load_timed_out, site, navigated, saved>>

\* the loop condition fails: self.driver.quit()
Quit ==
    /\ pc = "loop"
    /\ will_visit = {}
    /\ driver' = "quit"
    /\ pc' = "done"
    /\ UNCHANGED <<expandVars, assetVars, pollVars, setupVars, self_url, will_visit, visited, url, soup, subpage_urls, files,
                   error, load_timed_out, site, navigated, saved>>

---------------------------------------------------------------------------
(* The readiness wait of Scraper._load_page: WebDriverWait(...).until(is_page_loaded) *)

\* the most notion-scroller elements of a document
MaxScrollers == 1

\* the most polls of one wait before its deadline
MaxPolls == 3

\* What is_page_loaded looks at in the live document: whether there is a
\* notion-presence-container, a notion-unknown-block, a loading-spinner, how
\* many notion-scroller elements there are and how many of them hold a div,
\* and the rest of the markup.
Pages ==
    {pg \in [presence : BOOLEAN, unknown : BOOLEAN, spinner : BOOLEAN,
              scrollers : 0..MaxScrollers, filled : 0..MaxScrollers, text : {"a", "b"}] :
        pg.filled <= pg.scrollers}

RECURSIVE Repeat(_, _)
Repeat(str, n) == IF n = 0 THEN "" ELSE str \o Repeat(str, n - 1)

\* d.page_source: the serialized markup of a document
PageSource(pg) ==
    "<html>" \o (IF pg.presence THEN "<presence/>" ELSE "")
             \o (IF pg.unknown THEN "<unknown/>" ELSE "")
             \o (IF pg.spinner THEN "<spinner/>" ELSE "")
             \o Repeat("<scroller><div/></scroller>", pg.filled)
             \o Repeat("<scroller/>", pg.scrollers - pg.filled)
             \o pg.text \o "</html>"

\* is_page_loaded without the comparison with prev_page
IsPageLoaded_NoDebounce(pg, prev) ==
    /\ pg.presence
    /\ pg.filled = pg.scrollers /\ ~pg.unknown /\ ~pg.spinner

\* lines 191-200: what is_page_loaded returns on a document, given prev_page
IsPageLoaded(pg, prev) ==
    /\ pg.presence
    /\ LET page_changed == prev # PageSource(pg)
           all_scrollers_loaded == pg.filled = pg.scrollers
       IN  all_scrollers_loaded /\ ~pg.unknown /\ ~pg.spinner /\ ~page_changed

\* line 187 and driver.get(url): the wait starts on some document
InitPoll ==
    /\ lpc = "wait"
    /\ live \in Pages
    /\ prev_page = ""
    /\ polls = 0
    /\ seen_before = ""

\* one poll of until(): the document is what the browser has made of it by
\* now; is_page_loaded returns True, or stores the markup and returns False
Poll ==
    /\ lpc = "wait"
    /\ polls < MaxPolls
    /\ \E pg \in Pages :
        /\ live' = pg
        /\ IF IsPageLoaded(pg, prev_page)
           THEN lpc' = "ready" /\ prev_page' = prev_page
           ELSE lpc' = "wait" /\ prev_page' = PageSource(pg)
    /\ polls' = polls + 1
    /\ seen_before' = IF polls = 0 THEN "" ELSE PageSource(live)
    /\ UNCHANGED <<runVars, expandVars, assetVars, setupVars>>

\* the deadline passes after a poll that returned False: TimeoutException
WaitTimeout ==
    /\ lpc = "wait"
    /\ polls >= 1
    /\ lpc' = "timeout"
    /\ UNCHANGED <<runVars, expandVars, assetVars, setupVars, live, prev_page, polls, seen_before>>

---------------------------------------------------------------------------
(* Scraper._expand_toggle_blocks on one live document                      *)

\* the most toggle blocks a document holds
MaxWidgets == 2

\* A widget of the live document: its parent widget (0: none; a nested widget
\* is in the document only while its parent's content is rendered), whether
\* its button's svg is rotated "(180deg)", whether its content is rendered
\* (is_block_expanded), and whether a click rotates the button at all.
WidgetStates(w) ==
    [parent : 0..(w - 1), rotated : BOOLEAN, loaded : BOOLEAN, responds : BOOLEAN]

\* the documents a page may show: a widget that is open on arrival has its
\* content rendered, a collapsed one has not
Doms ==
    UNION {{d \in [1..n -> UNION {WidgetStates(w) : w \in 1..n}] :
                \A w \in 1..n : /\ d[w] \in WidgetStates(w)
                                /\ d[w].loaded = d[w].rotated}
           : n \in 0..MaxWidgets}

RECURSIVE InDocument(_, _)
InDocument(d, w) ==
    \/ d[w].parent = 0
    \/ /\ d[d[w].parent].rotated
       /\ d[d[w].parent].loaded
       /\ InDocument(d, d[w].parent)

InList(x, list) == \E i \in DOMAIN list : list[i] = x

\* get_toggle_blocks(): the widgets in the document, in document order
GetToggleBlocks(d) == SelectSeq([i \in DOMAIN d |-> i], LAMBDA w : InDocument(d, w))

\* [block for block in get_toggle_blocks() if block not in expanded_toggle_blocks]
NotYetExpanded(d, expanded) == SelectSeq(GetToggleBlocks(d), LAMBDA w : ~InList(w, expanded))

Bump(n) == IF n >= CountCap THEN n ELSE n + 1

\* An entry of expanded_toggle_blocks is a WebElement, <<page, widget>> here.
\* The widgets of page p that equal an entry of the list:
OnPage(list, p) ==
    LET mine == SelectSeq(list, LAMBDA e : e[1] = p)
    IN  [i \in DOMAIN mine |-> mine[i][2]]

\* the first call, _expand_toggle_blocks(), of the process: the default list is empty
InitExpand ==
    /\ dom \in Doms
    /\ epc = "enter"
    /\ expanded_toggle_blocks = <<>>
    /\ page_no = 1
    /\ toggle_blocks = <<>>
    /\ idx = 0
    /\ clicks = [w \in DOMAIN dom |-> 0]
    /\ timed_out = {}

\* lines 238-239: the list of this call
EnterPass ==
    /\ epc = "enter"
    /\ toggle_blocks' = NotYetExpanded(dom, OnPage(expanded_toggle_blocks, page_no))
    /\ idx' = 1
    /\ epc' = "for"
    /\ UNCHANGED <<runVars, assetVars, pollVars, setupVars, page_no, dom, expanded_toggle_blocks, clicks, timed_out>>

\* lines 241-251 for a block that is found expanded: it is recorded
RecordExpanded ==
    /\ epc = "for"
    /\ idx <= Len(toggle_blocks)
    /\ dom[toggle_blocks[idx]].rotated
    /\ expanded_toggle_blocks' = Append(expanded_toggle_blocks, <<page_no, toggle_blocks[idx]>>)
    /\ idx' = idx + 1
    /\ UNCHANGED <<runVars, assetVars, pollVars, setupVars, page_no, epc, dom, toggle_blocks, clicks, timed_out>>

\* lines 244-251 for a collapsed block whose wait succeeds: click, the content
\* renders within the timeout, the block is recorded
ClickAndExpand ==
    /\ epc = "for"
    /\ idx <= Len(toggle_blocks)
    /\ LET b == toggle_blocks[idx]
       IN  /\ ~dom[b].rotated
           /\ dom[b].responds
           /\ clicks' = [clicks EXCEPT ![b] = Bump(@)]
           /\ dom' = [dom EXCEPT ![b].rotated = TRUE, ![b].loaded = TRUE]
           /\ expanded_toggle_blocks' = Append(expanded_toggle_blocks, <<page_no, b>>)
    /\ idx' = idx + 1
    /\ UNCHANGED <<runVars, assetVars, pollVars, setupVars, page_no, epc, toggle_blocks, timed_out>>

\* lines 244-250 for a collapsed block whose wait times out: click, the
\* content does not render within the timeout (the button rotates if it
\* responds to the click at all), `continue` goes on with the next block
ClickAndTimeout ==
    /\ epc = "for"
    /\ idx <= Len(toggle_blocks)
    /\ LET b == toggle_blocks[idx]
       IN  /\ ~dom[b].rotated
           /\ clicks' = [clicks EXCEPT ![b] = Bump(@)]
           /\ dom' = [dom EXCEPT ![b].rotated = dom[b].responds]
           /\ timed_out' = timed_out \cup {b}
    /\ idx' = idx + 1
    /\ UNCHANGED <<runVars, assetVars, pollVars, setupVars, page_no, epc, toggle_blocks, expanded_toggle_blocks>>

\* the end of a pass without lines 253-256: no recursive call
EndPass_NoRecursion ==
    /\ epc = "for"
    /\ idx > Len(toggle_blocks)
    /\ epc' = "returned"
    /\ UNCHANGED <<runVars, assetVars, pollVars, setupVars, page_no, dom, expanded_toggle_blocks, toggle_blocks, idx,
                   clicks, timed_out>>

\* lines 253-256: the blocks not recorded by now go to a recursive call
EndPass ==
    /\ epc = "for"
    /\ idx > Len(toggle_blocks)
    /\ epc' = IF NotYetExpanded(dom, OnPage(expanded_toggle_blocks, page_no)) # <<>>
              THEN "enter" ELSE "returned"
    /\ UNCHANGED <<runVars, assetVars, pollVars, setupVars, page_no, dom, expanded_toggle_blocks, toggle_blocks, idx,
                   clicks, timed_out>>

\* the most pages of a run
MaxPages == 2

\* run's lines 164-168 after an expansion has returned: the next URL is
\* loaded and self._expand_toggle_blocks() is called again, without an
\* argument: the list is the default object of the method, which is made
\* once, at the definition (line 219)
NextPage ==
    /\ epc = "returned"
    /\ page_no < MaxPages
    /\ page_no' = page_no + 1
    /\ dom' \in Doms
    /\ epc' = "enter"
    /\ toggle_blocks' = <<>>
    /\ idx' = 0
    /\ clicks' = [w \in DOMAIN dom' |-> 0]
    /\ timed_out' = {}
    /\ UNCHANGED <<runVars, assetVars, pollVars, setupVars, expanded_toggle_blocks>>

---------------------------------------------------------------------------
(* pathlib, mimetypes and hashlib as FileManager.download_asset uses them  *)

\* the path components that pathlib keeps: no empty one, no "."
PathParts(p) == SelectSeq(Split(p, "/"), LAMBDA part : part # "" /\ part # ".")

\* str(Path(p)).replace("\\", "/"): runs of slashes collapse and a trailing
\* slash goes, so "https://host/x" becomes "https:/host/x"
PathStr(p) ==
    LET joined == (IF StartsWith(p, "/") THEN "/" ELSE "") \o Join(PathParts(p), "/")
    IN  IF joined = "" THEN "." ELSE joined

\* Path(p).name
PathName(p) == IF PathParts(p) = <<>> THEN "" ELSE PathParts(p)[Len(PathParts(p))]

\* Path(p).suffix: from the last dot of the name, unless the dot is the first
\* or the last character
PathSuffix(p) ==
    LET name == PathName(p)
        i    == RFind(name, ".")
    IN  IF i > 1 /\ i < Len(name) THEN Slice(name, i, Len(name)) ELSE ""

\* os.path.split(p)[0]
DirName(p) ==
    LET head == Slice(p, 1, RFind(p, "/"))
    IN  IF Strip(head, "/") = "" THEN head ELSE Slice(head, 1, Len(head) - 1)

\* the value of a missing header, attribute or guess
None == "<none>"

\* mimetypes.guess_extension(content_type)
GuessExtension(content_type) ==
    CASE content_type = "image/png" -> ".png"
      [] content_type = "text/css"  -> ".css"
      [] OTHER                      -> None

\* hashlib.sha1(...).hexdigest() is not computed: it is modelled by an
\* injective encoding, collision-free like the digest, and like the digest
\* without "." and "/" in its value.
HexChar(c) ==
    CASE c = "/" -> "_2f" [] c = "." -> "_2e" [] c = ":" -> "_3a" [] c = "?" -> "_3f"
      [] c = "=" -> "_3d" [] c = "[" -> "_5b" [] c = "]" -> "_5d" [] c = "'" -> "_27"
      [] c = "_" -> "_5f" [] c = "-" -> "_2d" [] c = "%" -> "_25" [] c = "&" -> "_26"
      [] c = "#" -> "_23" [] c = "," -> "_2c" [] c = " " -> "_20" [] c = ";" -> "_3b"
      [] OTHER -> c

RECURSIVE Sha1(_)
Sha1(s) == IF s = "" THEN "" ELSE HexChar(SubSeq(s, 1, 1)) \o Sha1(Slice(s, 2, Len(s)))

\* urllib.parse.parse_qs(query)[key]: the non-blank values of key, in order
QueryValues(query, key) ==
    LET items == SelectSeq(Split(query, "&"),
                           LAMBDA it : StartsWith(it, key \o "=") /\ Len(it) > Len(key) + 1)
    IN  [i \in DOMAIN items |-> Slice(items[i], Len(key) + 2, Len(items[i]))]

\* str(list of str)
ListRepr(values) == "[" \o Join([i \in DOMAIN values |-> "'" \o values[i] \o "'"], ", ") \o "]"

\* lines 61-68: the name of an asset that comes without a filename
HashedFilename(u) ==
    LET queryless == UrlNetloc(u) \o UrlPath(u)
        width     == QueryValues(UrlQuery(u), "width")
    IN  Sha1(IF width # <<>> THEN queryless \o "?width=" \o ListRepr(width) ELSE queryless)

---------------------------------------------------------------------------
(* FileManager.download_asset                                              *)

\* what session.get(url) may answer: an error (raise_for_status included), or
\* a body with this content-type header (None: no such header)
Responses == {"error", "image/png", None}

\* glob.glob(dir + "/" + filename + ".*") over the file names of a directory
GlobDotStar(dir, filename) == {f \in dir : StartsWith(f, filename \o ".")}

\* _load_from_cache: the cache files that match
CacheMatches(ch, filename) ==
    IF PathSuffix(filename) # "" THEN {f \in ch : f = filename} ELSE GlobDotStar(ch, filename)

\* lines 78-106: the fetch and what it leaves
Fetch(as, u, filename, response) ==
    LET failed == [ret |-> PathStr(u), assets |-> as, fetched |-> TRUE]
        stored(name) == [ret |-> "assets/" \o name, assets |-> as \cup {name}, fetched |-> TRUE]
        suffix == PathSuffix(UrlPath(u))
        cut    == IF Contains(Lower(suffix), "%3f")
                  THEN Slice(suffix, 1, Find(Lower(suffix), "%3f") - 1)
                  ELSE suffix
    IN  IF response = "error" THEN failed
        ELSE IF PathSuffix(filename) # "" THEN stored(filename)
        ELSE IF suffix # ""
             THEN (IF cut = "." THEN failed           \* with_suffix raises ValueError
                   ELSE stored(filename \o cut))
        ELSE IF response = None \/ GuessExtension(response) = None
             THEN failed                              \* an assert fails
        ELSE stored(filename \o GuessExtension(response))

\* download_asset(url, filename): every result it can have, over the order
\* in which glob lists a directory and the answer of the remote server.
\* ret is the returned string, assets the output assets directory afterwards,
\* fetched whether session.get was called.
DownloadAsset(as, ch, use_cache, u, hint) ==
    LET filename == IF hint = "" THEN HashedFilename(u) ELSE hint
        already  == GlobDotStar(as, filename)
        cached   == CacheMatches(ch, filename)
    IN  IF already # {}
        THEN {[ret |-> "assets/" \o f, assets |-> as, fetched |-> FALSE] : f \in already}
        ELSE IF use_cache /\ cached # {}
        THEN {[ret |-> "assets/" \o f, assets |-> as \cup {f}, fetched |-> FALSE] : f \in cached}
        ELSE {Fetch(as, u, filename, response) : response \in Responses}

\* the record of one call: its arguments, the output assets directory it
\* found, what it returned and whether it fetched
Call(u, hint, as, result) ==
    [url |-> u, filename |-> hint, before |-> as, ret |-> result.ret, fetched |-> result.fetched]

---------------------------------------------------------------------------
(* Scraper._download_images, and the font downloads of _download_stylesheets *)

\* an img element: its src (None: no such attribute), whether its class has
\* notion-emoji, and the background of its style
Img(src, emoji, background) == [src |-> src, emoji |-> emoji, background |-> background]

ImgChoices ==
    { Img("https://img.example/a.png?width=200", FALSE, ""),
      Img("/images/logo", FALSE, ""),
      Img("data:image/png;base64,AAAA", FALSE, ""),
      Img(None, FALSE, ""),
      Img("data:image/gif;base64,R0", TRUE, "url(/emoji/sheet.png) 50% 50%") }

\* the most img elements of a document
MaxImgs == 2

\* the font files (group 2 of the url regex) of the most font-face rules
FontFiles == {"/fonts/inter.woff", "assets/inter.woff", "/fonts/mono"}
MaxFonts == 2

\* the src values of the font-face rules, as cssutils gives them: a url of
\* one of the font files, or a source that is no url
FontSrcs == {"url(" \o f \o ")" : f \in FontFiles} \cup {"local(Inter)"}

\* the lazy group 2 of the url regex, `(.+?)\)`: at least one character, up
\* to the first ")" after it
LazyGroup(rest) ==
    LET i == FindFrom(rest, ")", 2) IN IF i = 0 THEN None ELSE Slice(rest, 1, i - 1)

\* `(/?https:/www.notion.so)*(.+?)\)` on the text after "url(": the greedy
\* repetition, given up one repeat at a time when group 2 finds no match
RECURSIVE AfterNotionPrefixes(_)
AfterNotionPrefixes(rest) ==
    LET n == IF StartsWith(rest, "/https:/www.notion.so") THEN 21
             ELSE IF StartsWith(rest, "https:/www.notion.so") THEN 20
             ELSE 0
        m == IF n = 0 THEN None ELSE AfterNotionPrefixes(Slice(rest, n + 1, Len(rest)))
    IN  IF m # None THEN m ELSE LazyGroup(rest)

\* lines 328-332: m.group(2) of url_regex.match(src), None when it does not match
UrlRegexGroup2(src) ==
    IF StartsWith(src, "url(") THEN AfterNotionPrefixes(Slice(src, 5, Len(src))) ELSE None

\* the href of the stylesheet that holds the font-face rules
CssHref == "/_assets/app.css"

\* the file names a cache directory may hold from earlier runs
CacheNames == {HashedFilename("https://img.example/a.png?width=200") \o ".png", "inter.woff"}

SeqsUpTo(S, n) == UNION {[1..k -> S] : k \in 0..n}

\* line 286: the images of the first loop; line 298: the emojis
ImageIdx(doc) == SelectSeq([i \in DOMAIN doc |-> i], LAMBDA i : doc[i].src # None /\ ~doc[i].emoji)
EmojiIdx(doc) == SelectSeq([i \in DOMAIN doc |-> i], LAMBDA i : doc[i].emoji)

\* line 293: the absolute url of an image
AbsoluteSrc(src) == IF StartsWith(src, "/") THEN "https://www.notion.so" \o src ELSE src

\* the output directory is new (_setup), the cache is what earlier runs left
InitAsset ==
    /\ apc = "images"
    /\ cache_assets \in BOOLEAN
    /\ assets = {}
    /\ cache \in {{}, CacheNames}
    /\ imgs \in SeqsUpTo(ImgChoices, MaxImgs)
    /\ orig_imgs = imgs
    /\ img_i = 1
    /\ fonts = <<>>
    /\ font_i = 1
    /\ asset_error = "none"
    /\ calls = <<>>

\* lines 288-296: one iteration of the loop over images
DownloadImage ==
    /\ apc = "images"
    /\ img_i <= Len(ImageIdx(imgs))
    /\ LET i   == ImageIdx(imgs)[img_i]
           src == imgs[i].src
       IN  IF ~Contains(src, "data:image")
           THEN \E r \in DownloadAsset(assets, cache, cache_assets, AbsoluteSrc(src), "") :
                   /\ imgs' = [imgs EXCEPT ![i].src = r.ret]
                   /\ assets' = r.assets
                   /\ calls' = Append(calls, Call(AbsoluteSrc(src), "", assets, r))
           ELSE /\ imgs' = [imgs EXCEPT ![i].src = AbsoluteSrc(src)]
                /\ UNCHANGED <<assets, calls>>
    /\ img_i' = img_i + 1
    /\ UNCHANGED <<runVars, expandVars, pollVars, setupVars, apc, cache_assets, cache, orig_imgs, fonts, font_i,
                   asset_error>>

\* the first loop is over
ImagesDone ==
    /\ apc = "images"
    /\ img_i > Len(ImageIdx(imgs))
    /\ apc' = "emojis"
    /\ img_i' = 1
    /\ UNCHANGED <<runVars, expandVars, pollVars, setupVars, cache_assets, assets, cache, imgs, orig_imgs,
                   fonts, font_i, asset_error, calls>>

\* lines 300-306: one iteration of the loop over emojis
DownloadEmoji ==
    /\ apc = "emojis"
    /\ img_i <= Len(EmojiIdx(imgs))
    /\ LET i  == EmojiIdx(imgs)[img_i]
           spritesheet == imgs[i].background
           spritesheet_url ==
               Slice(spritesheet, Find(spritesheet, "(") + 1, Find(spritesheet, ")") - 1)
           u  == "https://www.notion.so" \o spritesheet_url
       IN  \E r \in DownloadAsset(assets, cache, cache_assets, u, "") :
               /\ imgs' = [imgs EXCEPT ![i].background =
                              ReplaceAll(spritesheet, spritesheet_url, r.ret)]
               /\ assets' = r.assets
               /\ calls' = Append(calls, Call(u, "", assets, r))
    /\ img_i' = img_i + 1
    /\ UNCHANGED <<runVars, expandVars, pollVars, setupVars, apc, cache_assets, cache, orig_imgs, fonts, font_i,
                   asset_error>>

\* the second loop is over; the assert of lines 308-310 holds, no img being
\* in both lists; _download_images returns, _download_stylesheets is next
EmojisDone ==
    /\ apc = "emojis"
    /\ img_i > Len(EmojiIdx(imgs))
    /\ apc' = "stylesheet"
    /\ UNCHANGED <<runVars, expandVars, pollVars, setupVars, cache_assets, assets, cache, imgs, orig_imgs,
                   img_i, fonts, font_i, asset_error, calls>>

\* lines 319-322 for the stylesheet link of the document: download_asset,
\* then open() of the returned path under the output directory, which raises
\* when no such file is there; the stylesheet that is parsed holds some
\* font-face rules
DownloadStylesheet ==
    /\ apc = "stylesheet"
    /\ LET u == "https://www.notion.so" \o CssHref
       IN  \E r \in DownloadAsset(assets, cache, cache_assets, u, "") :
               /\ assets' = r.assets
               /\ calls' = Append(calls, Call(u, "", assets, r))
               /\ IF r.ret \in {"assets/" \o f : f \in r.assets}
                  THEN /\ apc' = "fonts"
                       /\ fonts' \in SeqsUpTo(FontSrcs, MaxFonts)
                       /\ asset_error' = "none"
                  ELSE /\ apc' = "raised"
                       /\ fonts' = fonts
                       /\ asset_error' = "FileNotFoundError"
    /\ UNCHANGED <<runVars, expandVars, pollVars, setupVars, cache_assets, cache, imgs, orig_imgs, img_i, font_i>>

\* lines 334-338: the url a font file is downloaded from
FontDownloadUrl(css_href, font_file) ==
    LET parts == << "https://www.notion.so", DirName(UrlPath(css_href)),
                    ReplaceAll(font_file, "assets/", "") >>
        kept  == SelectSeq(parts, LAMBDA p : Strip(p, "/") # "")
    IN  Join([i \in DOMAIN kept |-> Strip(kept[i], "/")], "/")

\* lines 328-332 for a font-face rule whose src the regex does not match
FontParseError ==
    /\ apc = "fonts"
    /\ font_i <= Len(fonts)
    /\ UrlRegexGroup2(fonts[font_i]) = None
    /\ apc' = "raised"
    /\ asset_error' = "ValueError"
    /\ UNCHANGED <<runVars, expandVars, pollVars, setupVars, cache_assets, assets, cache, imgs, orig_imgs, img_i,
                   fonts, font_i, calls>>

\* lines 328-341: the download of the font of one font-face rule
DownloadFont ==
    /\ apc = "fonts"
    /\ font_i <= Len(fonts)
    /\ UrlRegexGroup2(fonts[font_i]) # None
    /\ LET group2    == UrlRegexGroup2(fonts[font_i])
           font_file == ReplaceAll(group2, "assets/", "")
           u         == FontDownloadUrl(CssHref, group2)
       IN  \E r \in DownloadAsset(assets, cache, cache_assets, u, PathName(font_file)) :
               /\ assets' = r.assets
               /\ calls' = Append(calls, Call(u, PathName(font_file), assets, r))
    /\ font_i' = font_i + 1
    /\ UNCHANGED <<runVars, expandVars, pollVars, setupVars, apc, cache_assets, cache, imgs, orig_imgs, img_i, fonts,
                   asset_error>>

\* the font-face rules are done
FontsDone ==
    /\ apc = "fonts"
    /\ font_i > Len(fonts)
    /\ apc' = "done"
    /\ UNCHANGED <<runVars, expandVars, pollVars, setupVars, cache_assets, assets, cache, imgs, orig_imgs,
                   img_i, fonts, font_i, asset_error, calls>>

---------------------------------------------------------------------------
(* FileManager.__init__ and _setup, and the download_asset calls after it  *)

\* the most download_asset calls after the setup
MaxCalls == 2

\* the asset files a prior run may have left in the output directory
PriorAssets == {"injection.css", "inter.woff"}

\* the arguments of the download_asset calls: an image, and a font with its
\* file name
SetupCalls ==
    { <<"https://img.example/a.png?width=200", "">>,
      <<"https://www.notion.so/_assets/fonts/inter.woff", "inter.woff">> }

\* The directories _setup works on, as a record: the output directory,
\* its assets directory and the files in it, the cache directory and the
\* files in it, and the kinds of access made to the cache directory.
Dirs(oe, oa, as, ce, ch, ops) ==
    [out_exists |-> oe, out_has_assets |-> oa, assets |-> as,
     cache_exists |-> ce, cache |-> ch, ops |-> ops]

\* lines 46-49 without the test of self.cache_assets
FoldIntoCache_Unconditional(fs, use_cache) ==
    IF fs.out_exists /\ fs.out_has_assets
    THEN [fs EXCEPT !.cache = fs.cache \cup fs.assets,
                    !.cache_exists = TRUE,
                    !.ops = @ \cup {"write"} \cup (IF fs.cache_exists THEN {} ELSE {"create"})]
    ELSE fs

\* lines 46-49: shutil.copytree(output_dir + "/assets", cache_dir, dirs_exist_ok=True)
FoldIntoCache(fs, use_cache) ==
    IF fs.out_exists /\ use_cache /\ fs.out_has_assets
    THEN [fs EXCEPT !.cache = fs.cache \cup fs.assets,
                    !.cache_exists = TRUE,
                    !.ops = @ \cup {"write"} \cup (IF fs.cache_exists THEN {} ELSE {"create"})]
    ELSE fs

\* lines 46, 51: shutil.rmtree(self.output_dir)
RemoveOutput(fs) ==
    IF fs.out_exists
    THEN [fs EXCEPT !.out_exists = FALSE, !.out_has_assets = FALSE, !.assets = {}]
    ELSE fs

\* lines 54-57: the three os.makedirs(..., exist_ok=True)
MakeDirs(fs, use_cache) ==
    [fs EXCEPT !.out_exists = TRUE,
               !.out_has_assets = TRUE,
               !.cache_exists = fs.cache_exists \/ use_cache,
               !.ops = @ \cup (IF use_cache /\ ~fs.cache_exists THEN {"create"} ELSE {})]

\* FileManager._setup, in the order of its statements
SetupDirs(fs, use_cache) == MakeDirs(RemoveOutput(FoldIntoCache(fs, use_cache)), use_cache)

\* before FileManager(url, cache_assets): what earlier runs left
InitSetup ==
    /\ spc = "new"
    /\ cache_assets \in BOOLEAN
    /\ out_exists \in BOOLEAN
    /\ out_has_assets \in (IF out_exists THEN BOOLEAN ELSE {FALSE})
    /\ assets \in (IF out_has_assets THEN {{}, PriorAssets} ELSE {{}})
    /\ cache_exists \in BOOLEAN
    /\ cache \in (IF cache_exists THEN {{}, CacheNames} ELSE {{}})
    /\ cache_ops = {}
    /\ cache0 = [exists |-> cache_exists, files |-> cache]
    /\ prior0 = [exists |-> out_exists, has_assets |-> out_has_assets, assets |-> assets]
    /\ calls = <<>>
    /\ apc = "idle" /\ imgs = <<>> /\ orig_imgs = <<>> /\ img_i = 0
    /\ fonts = <<>> /\ font_i = 0 /\ asset_error = "none"

\* FileManager.__init__: the paths are computed, then self._setup()
Setup ==
    /\ spc = "new"
    /\ LET fs == SetupDirs(Dirs(out_exists, out_has_assets, assets, cache_exists, cache,
                                 cache_ops), cache_assets)
       IN  /\ out_exists' = fs.out_exists
           /\ out_has_assets' = fs.out_has_assets
           /\ assets' = fs.assets
           /\ cache_exists' = fs.cache_exists
           /\ cache' = fs.cache
           /\ cache_ops' = fs.ops
    /\ spc' = "ready"
    /\ UNCHANGED <<runVars, expandVars, pollVars, cache0, prior0, apc, cache_assets, imgs,
                   orig_imgs, img_i, fonts, font_i, asset_error, calls>>

\* a download_asset call on the FileManager; lines 75-76 look into the cache
\* directory when nothing matched in the output directory and caching is on
SetupDownload ==
    /\ spc = "ready"
    /\ Len(calls) < MaxCalls
    /\ \E a \in SetupCalls :
        LET filename == IF a[2] = "" THEN HashedFilename(a[1]) ELSE a[2]
        IN  /\ \E r \in DownloadAsset(assets, cache, cache_assets, a[1], a[2]) :
                  /\ assets' = r.assets
                  /\ calls' = Append(calls, Call(a[1], a[2], assets, r))
            /\ cache_ops' = cache_ops \cup
                  (IF cache_assets /\ GlobDotStar(assets, filename) = {} THEN {"read"} ELSE {})
    /\ UNCHANGED <<runVars, expandVars, pollVars, spc, out_exists, out_has_assets, cache_exists,
                   cache0, prior0, apc, cache_assets, cache, imgs, orig_imgs, img_i, fonts,
                   font_i, asset_error>>

---------------------------------------------------------------------------
(* Specifications                                                          *)

IdleRun ==
    /\ self_url = "" /\ pc = "idle" /\ will_visit = {} /\ visited = {} /\ url = ""
    /\ soup = <<>> /\ subpage_urls = <<>> /\ files = <<>> /\ driver = "open"
    /\ error = "none" /\ load_timed_out = FALSE /\ site = <<>>
    /\ navigated = EmptyBag /\ saved = EmptyBag

IdleExpand ==
    /\ epc = "idle" /\ dom = <<>> /\ expanded_toggle_blocks = <<>> /\ toggle_blocks = <<>>
    /\ idx = 0 /\ clicks = <<>> /\ timed_out = {} /\ page_no = 0

IdleAsset ==
    /\ apc = "idle" /\ cache_assets = FALSE /\ assets = {} /\ cache = {} /\ imgs = <<>>
    /\ orig_imgs = <<>> /\ img_i = 0 /\ fonts = <<>> /\ font_i = 0 /\ asset_error = "none"
    /\ calls = <<>>

IdleSetup ==
    /\ spc = "idle" /\ out_exists = TRUE /\ out_has_assets = TRUE /\ cache_exists = TRUE
    /\ cache_ops = {} /\ cache0 = [exists |-> TRUE, files |-> {}]
    /\ prior0 = [exists |-> FALSE, has_assets |-> FALSE, assets |-> {}]

IdlePoll ==
    /\ lpc = "idle" /\ live = [presence |-> FALSE] /\ prev_page = "" /\ polls = 0
    /\ seen_before = ""

\* Scraper(args.url, ...).run()
Init == InitRun /\ IdleExpand /\ IdleAsset /\ IdlePoll /\ IdleSetup

Next ==
    \/ Pop
    \/ LoadPage
    \/ ExpandToggleBlocks
    \/ Capture
    \/ DownloadStylesheets
    \/ LinkStage
    \/ SavePage
    \/ Quit

Spec == Init /\ [][Next]_vars

\* run is one thread: it takes its next step whenever it has one
FairSpec == Spec /\ WF_vars(Next)

\* _expand_toggle_blocks() on a loaded page
ExpandInit == IdleRun /\ InitExpand /\ IdleAsset /\ IdlePoll /\ IdleSetup

ExpandNext ==
    \/ EnterPass
    \/ RecordExpanded
    \/ ClickAndExpand
    \/ ClickAndTimeout
    \/ EndPass

SpecExpand == ExpandInit /\ [][ExpandNext]_vars

FairSpecExpand == SpecExpand /\ WF_vars(ExpandNext)

\* the expansions of the pages of one run, one after the other
ExpandPagesNext == ExpandNext \/ NextPage

SpecExpandPages == ExpandInit /\ [][ExpandPagesNext]_vars

\* the asset downloads of one captured document
AssetInit == IdleRun /\ IdleExpand /\ InitAsset /\ IdlePoll /\ IdleSetup

AssetNext ==
    \/ DownloadImage
    \/ ImagesDone
    \/ DownloadEmoji
    \/ EmojisDone
    \/ DownloadStylesheet
    \/ FontParseError
    \/ DownloadFont
    \/ FontsDone

SpecAsset == AssetInit /\ [][AssetNext]_vars

\* the readiness wait of one _load_page call
PollInit == IdleRun /\ IdleExpand /\ IdleAsset /\ InitPoll /\ IdleSetup

PollNext == Poll \/ WaitTimeout

SpecPoll == PollInit /\ [][PollNext]_vars

\* FileManager(url, cache_assets), then download_asset calls
SetupInit == IdleRun /\ IdleExpand /\ IdlePoll /\ InitSetup

SetupNext == Setup \/ SetupDownload

SpecSetup == SetupInit /\ [][SetupNext]_vars

---------------------------------------------------------------------------
(* Claims about Scraper.run (Spec, FairSpec)                               *)

\* the URLs _link_to_subpages makes of the subpage links of a captured page
SubpageUrlsOf(u) ==
    IF u \in DOMAIN site THEN Range(LinkToSubpages(self_url, site[u]).subpage_urls) ELSE {}

\* the least set of URLs that holds S and the subpage links of its pages
RECURSIVE Closure(_)
Closure(S) ==
    LET T == S \cup UNION {SubpageUrlsOf(u) : u \in S}
    IN  IF T = S THEN S ELSE Closure(T)

\* every URL a crawl of the modelled site can come to
PageUrls == UNION {SiteUrls(r) : r \in RootUrls}

\* C1: whatever the link graph and the pop order, run navigates to a URL at
\* most once and saves it at most once; a URL that is in visited is never
\* added to will_visit again and never popped again.
C1_VisitedAtMostOnce ==
    /\ [](\A u \in PageUrls : CopiesIn(u, navigated) <= 1 /\ CopiesIn(u, saved) <= 1)
    /\ [][\A u \in visited' : /\ u \notin will_visit'
                              /\ (pc = "loop" /\ pc' = "load") => url' # u]_vars

\* C1's case: the run is over, and a page other than the root held a subpage
\* link back to the root, which had been visited by then
C1_Witness ==
    /\ pc = "done"
    /\ \E u \in visited : u # self_url /\ self_url \in SubpageUrlsOf(u)

\* C2: when run ends normally, the URLs a document was saved for are exactly
\* the closure, from the root, of the links _link_to_subpages classifies as
\* subpage links.
C2_VisitedIsClosure ==
    pc = "done" => /\ visited = Closure({self_url})
                   /\ BagToSet(saved) = visited

\* C2's case: the run is over, it reached a page through another page than
\* the root, and a visited page held a workspace link that is no subpage link
C2_Witness ==
    /\ pc = "done"
    /\ \E u \in visited : u \notin SubpageUrlsOf(self_url) \cup {self_url}
    /\ \E u \in visited : \E i \in DOMAIN site[u] : site[u][i].href = "/Notes-c3"

\* C3: two distinct visited URLs are saved under two distinct file names, and
\* at the end the output directory holds as many page files as there are
\* visited URLs.
C3_OneFilePerUrl ==
    /\ \A u1, u2 \in visited :
          u1 # u2 => GetFilenameFromUrl(self_url, u1) # GetFilenameFromUrl(self_url, u2)
    /\ pc = "done" => Cardinality(DOMAIN files) = Cardinality(visited)

\* C4: the save of the root URL writes index.html, and an anchor that
\* _link_to_subpages rewrites as a subpage link to the root URL gets the
\* href index.html.
C4_RootIsIndex ==
    /\ [][(pc = "save" /\ pc' = "loop" /\ url = self_url)
            => ("index.html" \in DOMAIN files' /\ files'["index.html"] = self_url)]_vars
    /\ [](pc = "save" =>
            \A i \in DOMAIN site[url] :
                RewriteAnchor(self_url, site[url][i]).urls = <<self_url>>
                    => soup[i].href = "index.html")

\* C4's case: the root has been saved, and the page about to be saved holds
\* a subpage link to the root
C4_Witness ==
    /\ pc = "save"
    /\ url # self_url
    /\ "index.html" \in DOMAIN files
    /\ \E i \in DOMAIN site[url] : RewriteAnchor(self_url, site[url][i]).urls = <<self_url>>

\* C5: when every stage of the loop body returns, run comes to its end: the
\* frontier is empty then, and the driver is quit only then, after the last
\* save.
C5_RunTerminates ==
    /\ <>(pc = "done" \/ pc = "aborted")
    /\ [](pc = "done" => will_visit = {} /\ driver = "quit")
    /\ [](driver = "quit" => pc = "done")
    /\ [][driver = "quit" => saved' = saved]_vars

\* C5's case: a run over three pages has ended and released the driver
C5_Witness ==
    /\ pc = "done"
    /\ driver = "quit"
    /\ Cardinality(visited) = 3

Hyperlinks(doc) == {i \in DOMAIN doc : doc[i].tag = "a" /\ doc[i].href # NoHref}

\* the three states of a hyperlink after the link stage
IsInPageAnchor(e)  == e.tag = "a" /\ e.href # NoHref /\ StartsWith(e.href, "#")
IsLocalFile(e)     == /\ e.tag = "a" /\ e.href # NoHref
                      /\ Len(e.href) > 5
                      /\ Slice(e.href, Len(e.href) - 4, Len(e.href)) = ".html"
                      /\ ~Contains(e.href, "/")
IsDeactivated(e)   == e.tag = "span" /\ e.href = NoHref

\* C12: after _link_to_subpages every hyperlink of the captured document is
\* in exactly one of the states in-page anchor, local file name, deactivated;
\* none keeps its original href.
C12_ClassificationTotal ==
    pc = "save" =>
        \A i \in Hyperlinks(site[url]) :
            /\ IsInPageAnchor(soup[i]) \/ IsLocalFile(soup[i]) \/ IsDeactivated(soup[i])
            /\ ~(IsInPageAnchor(soup[i]) /\ IsLocalFile(soup[i]))
            /\ ~(IsInPageAnchor(soup[i]) /\ IsDeactivated(soup[i]))
            /\ ~(IsLocalFile(soup[i]) /\ IsDeactivated(soup[i]))

\* C13: a hyperlink without a fragment whose URL is on another domain than
\* the workspace's is demoted to a span without href, and adds no URL to
\* subpage_urls.
C13_ExternalDeactivated ==
    pc = "save" =>
        \A i \in Hyperlinks(site[url]) :
            LET u == ResolveHref(self_url, site[url][i].href)
            IN  (~Contains(u, "#") /\ UrlNetloc(u) # UrlNetloc(self_url))
                    => /\ IsDeactivated(soup[i])
                       /\ RewriteAnchor(self_url, site[url][i]).urls = <<>>

\* C18: a hyperlink whose URL has a fragment, on whatever domain, gets the
\* fragment alone as href and the anchor-link class, and adds no URL to
\* subpage_urls.
C18_FragmentBeforeExternal ==
    pc = "save" =>
        \A i \in Hyperlinks(site[url]) :
            LET u == ResolveHref(self_url, site[url][i].href)
            IN  Contains(u, "#")
                    => /\ soup[i].href = "#" \o SplitLast(u, "#")
                       /\ soup[i].cls = "notionsnapshot-anchor-link"
                       /\ RewriteAnchor(self_url, site[url][i]).urls = <<>>

\* the page URL a collection row stands for: the workspace domain, "/" and
\* the block id without hyphens
RowTarget(root, block_id) == Domain(root) \o "/" \o ReplaceAll(block_id, "-", "")

\* C14: every collection row with a block id becomes an anchor to its
\* subpage, and the URL of that subpage goes to the frontier, so that it is
\* visited and saved by the end of the run.
C14_RowTargetsDiscovered ==
    /\ pc = "save" =>
          \A i \in DOMAIN site[url] :
              site[url][i].tag = "row" =>
                  /\ soup[i].tag = "a"
                  /\ soup[i].href = "/" \o ReplaceAll(site[url][i].block_id, "-", "")
    /\ pc \in {"loop", "done"} =>
          \A u \in visited : \A i \in DOMAIN site[u] :
              site[u][i].tag = "row" =>
                  RowTarget(self_url, site[u][i].block_id) \in visited \cup will_visit

\* C15: will_visit and visited are disjoint in every state of run.
C15_PendingVisitedDisjoint == will_visit \cap visited = {}

\* C15's case: a page that links to itself and back to the root has been
\* saved, and another URL is still pending
C15_Witness ==
    /\ pc = "loop"
    /\ url \in visited
    /\ url # self_url
    /\ {url, self_url} \subseteq SubpageUrlsOf(url)
    /\ will_visit # {}

\* C20: an anchor rewritten to a local file name has its target URL in
\* subpage_urls, and when run ends normally the file of that name exists and
\* was written for that target URL.
C20_LocalGraphClosed ==
    /\ pc = "save" =>
          \A i \in Hyperlinks(site[url]) :
              IsLocalFile(soup[i]) =>
                  \E t \in Range(subpage_urls) :
                      /\ t = ResolveHref(self_url, site[url][i].href)
                      /\ GetFilenameFromUrl(self_url, t) = soup[i].href
    /\ pc = "done" =>
          \A u \in visited : \A i \in Hyperlinks(site[u]) :
              LET r == RewriteAnchor(self_url, site[u][i])
              IN  r.urls # <<>> =>
                      /\ r.el.href \in DOMAIN files
                      /\ files[r.el.href] = r.urls[1]

---------------------------------------------------------------------------
(* Claims about the asset downloads (SpecAsset)                            *)

\* C6: after the loop over images the document has as many img elements as
\* before, and the src of every image is a local asset path or its original
\* absolute URL, character for character.
C6_ImagesLocalOrOriginal ==
    apc \in {"emojis", "stylesheet", "fonts", "done", "raised"} =>
        /\ Len(imgs) = Len(orig_imgs)
        /\ \A k \in DOMAIN ImageIdx(orig_imgs) :
              LET i == ImageIdx(orig_imgs)[k]
              IN  \/ StartsWith(imgs[i].src, "assets/")
                  \/ imgs[i].src = AbsoluteSrc(orig_imgs[i].src)

\* C7: a second download_asset call for the same url and filename returns
\* the local asset the first call returned, and does not fetch.
C7_SecondCallReusesAsset ==
    \A i, j \in DOMAIN calls :
        (/\ i < j
         /\ calls[i].url = calls[j].url
         /\ calls[i].filename = calls[j].filename
         /\ StartsWith(calls[i].ret, "assets/"))
            => (calls[j].ret = calls[i].ret /\ ~calls[j].fetched)

\* the name download_asset stores the asset of a call under
TargetName(c) == IF c.filename = "" THEN HashedFilename(c.url) ELSE c.filename

\* the files of a directory under a name: the name itself or the name with
\* any extension
UnderName(dir, name) == {f \in dir : f = name \/ StartsWith(f, name \o ".")}

\* C16: download_asset fetches only when the output assets directory has no
\* file under the target name and caching is off or the cache has no
\* matching file; on a cache hit the file is copied to the output assets
\* directory and returned without a fetch.
C16_ResolutionOrder ==
    \A i \in DOMAIN calls :
        LET c    == calls[i]
            name == TargetName(c)
        IN  /\ c.fetched =>
                  /\ UnderName(c.before, name) = {}
                  /\ ~cache_assets \/ UnderName(cache, name) = {}
            /\ (UnderName(c.before, name) = {} /\ cache_assets /\ UnderName(cache, name) # {})
                  => /\ ~c.fetched
                     /\ \E f \in UnderName(cache, name) :
                           c.ret = "assets/" \o f /\ f \in assets

\* the calls _download_stylesheets makes: for the stylesheet, and (with a
\* filename) for a font
IsStylesheetCall(c) == c.url = "https://www.notion.so" \o CssHref /\ c.filename = ""
IsFontCall(c)       == c.filename # ""

\* C17: in _download_stylesheets a failed fetch of the stylesheet or of a
\* font, and a font-face source that does not parse, raise and end the run.
C17_StylesheetFailuresFatal ==
    /\ \A i \in DOMAIN calls :
          ((IsStylesheetCall(calls[i]) \/ IsFontCall(calls[i]))
              /\ ~StartsWith(calls[i].ret, "assets/"))
            => apc = "raised"
    /\ \A k \in 1..Len(fonts) :
          (k < font_i /\ UrlRegexGroup2(fonts[k]) = None) => apc = "raised"
    /\ apc = "done" => \A k \in 1..Len(fonts) : UrlRegexGroup2(fonts[k]) # None

---------------------------------------------------------------------------
(* Claims about the FileManager and its cache directory (SpecSetup)        *)

\* C22: with caching off the cache directory is left as it was and is not
\* looked into: _setup copies nothing into it and does not make it, and no
\* download_asset call takes a file from it; with caching on the assets of
\* the prior output are in the cache when the output directory has been
\* made anew.
C22_CacheUntouchedWhenOff ==
    /\ ~cache_assets =>
          /\ cache = cache0.files
          /\ cache_exists = cache0.exists
          /\ cache_ops = {}
          /\ \A i \in DOMAIN calls :
                calls[i].fetched \/ GlobDotStar(calls[i].before, TargetName(calls[i])) # {}
    /\ (cache_assets /\ spc = "ready" /\ prior0.exists /\ prior0.has_assets) =>
          /\ cache_exists
          /\ prior0.assets \subseteq cache
          /\ cache0.files \subseteq cache
    /\ (spc = "ready" /\ calls = <<>>) => (out_exists /\ out_has_assets /\ assets = {})

\* C22's case: caching is off, the prior output had assets, the cache holds
\* the font file, and the font has been downloaded after the setup
C22_Witness ==
    /\ ~cache_assets
    /\ spc = "ready"
    /\ prior0.has_assets /\ prior0.assets = PriorAssets
    /\ cache0.files = CacheNames
    /\ \E i \in DOMAIN calls : calls[i].filename = "inter.woff" /\ calls[i].fetched

---------------------------------------------------------------------------
(* Claims about the readiness wait (SpecPoll)                              *)

\* C19: the wait ends ready only on a poll that finds no unknown block, no
\* loading spinner, a div in every scroller, and the markup the previous
\* poll saw; never on the first poll.
C19_ReadyNeedsAllFour ==
    lpc = "ready" =>
        /\ ~live.unknown
        /\ ~live.spinner
        /\ live.filled = live.scrollers
        /\ polls >= 2
        /\ PageSource(live) = seen_before

\* C19's case: readiness was declared on the third poll, on a document with
\* a scroller
C19_Witness ==
    /\ lpc = "ready"
    /\ polls = 3
    /\ live.scrollers >= 1

---------------------------------------------------------------------------
(* Claims about _expand_toggle_blocks (SpecExpand, FairSpecExpand)         *)

\* C9: a widget whose expansion wait timed out is in the already-expanded
\* list and gets no second click.
C9_TimedOutIsRecorded ==
    \A w \in timed_out : InList(<<page_no, w>>, expanded_toggle_blocks) /\ clicks[w] <= 1

\* C11: when _expand_toggle_blocks has returned and no wait timed out, every
\* toggle block in the document is expanded, also the blocks that came into
\* the document when an ancestor was expanded.
C11_NoCollapsedLeft ==
    (epc = "returned" /\ timed_out = {}) =>
        \A w \in DOMAIN dom : InDocument(dom, w) => dom[w].rotated

\* C11's case: the call has returned without a timeout after it clicked a
\* block open and then a block nested in that one
C11_Witness ==
    /\ epc = "returned"
    /\ timed_out = {}
    /\ \E w \in DOMAIN dom :
          /\ dom[w].parent # 0
          /\ clicks[w] = 1
          /\ clicks[dom[w].parent] = 1

\* C21: the already-expanded list belongs to one page: it is empty when the
\* expansion of a page starts, and holds no element of an earlier page.
C21_ExpandedListPerPage ==
    /\ (epc = "enter" /\ idx = 0) => expanded_toggle_blocks = <<>>
    /\ \A i \in DOMAIN expanded_toggle_blocks : expanded_toggle_blocks[i][1] = page_no

\* C10: _expand_toggle_blocks returns, also when widgets stay collapsed and
\* time out on every click.
C10_ExpandTerminates == <>(epc = "returned")

=============================================================================
